---- MODULE Spec2Model ----
(***************************************************************************)
(* Visualize_Data.py: a Streamlit script that is re-executed from top to   *)
(* bottom on every interaction.  One execution ("render pass") runs the    *)
(* upload handler, picks a dataset of st.session_state.datasets, filters   *)
(* it by 'Invoice Date', groups it, sorts it, draws one chart and offers   *)
(* the working table as Excel and CSV downloads.                          *)
(*                                                                         *)
(* A table is [columns, dtypes, rows]; a row maps column names to cells.   *)
(* Cells are integers: NaN is the missing value (NaN / NaT), 0..TextBase-1 *)
(* are numbers, TextBase.. are strings (in lexicographic order), and the   *)
(* strings DateBase + ts are those that parse as the timestamp ts.         *)
(***************************************************************************)
EXTENDS Integers, Sequences, FiniteSets, TLC

\* ---------------------------------------------------------------- bounds
MaxRows == 2          \* rows of a generated upload
MaxCats == 11         \* distinct categories of the one wide upload
TicksPerDay == 2      \* timestamps per calendar day

\* ------------------------------------------------------- cells and tables
NaN == -1
TextBase == 100
DateBase == 200
TopN == 10

NoTable == [columns |-> <<>>, dtypes |-> <<>>, rows |-> <<>>]

Range(s) == {s[i] : i \in DOMAIN s}

IsNumberCell(v) == v >= 0 /\ v < TextBase

\* pd.read_csv / pd.read_excel dtype inference: a column whose cells are all
\* numbers or missing is numeric, any other column (and every column of a table
\* without rows) has dtype object.
InferDtype(body, c) ==
    IF body.rows # <<>> /\ \A i \in DOMAIN body.rows :
                              body.rows[i][c] = NaN \/ IsNumberCell(body.rows[i][c])
    THEN "number" ELSE "object"

\* A file without any column does not decode (pandas: EmptyDataError).
Decodes(body) == body.columns # <<>>

read_csv(body) ==
    [columns |-> body.columns,
     dtypes  |-> [c \in Range(body.columns) |-> InferDtype(body, c)],
     rows    |-> body.rows]

read_excel(body) ==
    [columns |-> body.columns,
     dtypes  |-> [c \in Range(body.columns) |-> InferDtype(body, c)],
     rows    |-> body.rows]

endswith_csv(file_name) == file_name \in {"a.csv"}

select_dtypes(t, kind) == SelectSeq(t.columns, LAMBDA c : t.dtypes[c] = kind)

\* ------------------------------------------------------------ date filter
\* pd.to_datetime(..., errors='coerce') on one cell of a column of dtype d.
to_datetime(v, d) ==
    IF d = "datetime" THEN v
    ELSE IF v >= DateBase THEN v - DateBase
    ELSE NaN

\* dataset['Invoice Date'] = pd.to_datetime(dataset['Invoice Date'], errors='coerce')
CoerceInvoiceDate(t) ==
    [t EXCEPT !.dtypes["Invoice Date"] = "datetime",
              !.rows = [i \in DOMAIN t.rows |->
                          [t.rows[i] EXCEPT !["Invoice Date"] =
                              to_datetime(@, t.dtypes["Invoice Date"])]]]

dropna(t, c) == [t EXCEPT !.rows = SelectSeq(t.rows, LAMBDA r : r[c] # NaN)]

\* Timestamp.date() / Series.dt.date
dt_date(ts) == ts \div TicksPerDay

SetMin(S) == CHOOSE x \in S : \A y \in S : x <= y
SetMax(S) == CHOOSE x \in S : \A y \in S : x >= y

ColumnValues(t, c) == {t.rows[i][c] : i \in DOMAIN t.rows}

\* mutant of InRange: the upper end of the range is left out
InRangeOpenAbove(t, date_range) ==
    [t EXCEPT !.rows = SelectSeq(t.rows, LAMBDA r :
        /\ dt_date(r["Invoice Date"]) >= date_range[1]
        /\ dt_date(r["Invoice Date"]) < date_range[2])]

\* dataset[(dt.date >= date_range[0]) & (dt.date <= date_range[1])]
InRange(t, date_range) ==
    [t EXCEPT !.rows = SelectSeq(t.rows, LAMBDA r :
        /\ dt_date(r["Invoice Date"]) >= date_range[1]
        /\ dt_date(r["Invoice Date"]) <= date_range[2])]

\* --------------------------------------------------------------- grouping
RECURSIVE SortedSeq(_)
\* the elements of a finite set of integers in ascending order
SortedSeq(S) ==
    IF S = {} THEN <<>> ELSE <<SetMin(S)>> \o SortedSeq(S \ {SetMin(S)})

RECURSIVE CountCol(_, _, _, _)
\* mutant of SumCol: .count() in place of .sum()
CountCol(rows, g, key, c) ==
    IF rows = <<>> THEN 0
    ELSE (IF Head(rows)[g] = key /\ Head(rows)[c] # NaN THEN 1 ELSE 0)
         + CountCol(Tail(rows), g, key, c)

RECURSIVE SumCol(_, _, _, _)
\* sum of column c over the rows whose column g is key; missing cells are skipped
SumCol(rows, g, key, c) ==
    IF rows = <<>> THEN 0
    ELSE (IF Head(rows)[g] = key /\ Head(rows)[c] # NaN THEN Head(rows)[c] ELSE 0)
         + SumCol(Tail(rows), g, key, c)

\* mutant of GroupKeys: groupby(..., dropna=False)
GroupKeysWithMissing(t, g) == SortedSeq(ColumnValues(t, g))

\* groupby drops the rows whose key is missing and orders the groups by key
GroupKeys(t, g) == SortedSeq(ColumnValues(t, g) \ {NaN})

\* dataset.groupby(group_col).sum(numeric_only=True).reset_index()
groupby_sum(t, g) ==
    LET summed == SelectSeq(t.columns, LAMBDA c : c # g /\ t.dtypes[c] = "number")
        cols   == <<g>> \o summed
        keys   == GroupKeys(t, g)
    IN  [columns |-> cols,
         dtypes  |-> [c \in Range(cols) |-> t.dtypes[c]],
         rows    |-> [k \in DOMAIN keys |->
                        [c \in Range(cols) |->
                            IF c = g THEN keys[k] ELSE SumCol(t.rows, g, keys[k], c)]]]

\* ---------------------------------------------------------------- sorting
\* sort_values puts missing values last
Before(x, y) == IF x = NaN THEN FALSE ELSE IF y = NaN THEN TRUE ELSE x < y

RECURSIVE InsertRow(_, _, _)
InsertRow(sorted, r, c) ==
    IF sorted = <<>> THEN <<r>>
    ELSE IF Before(r[c], Head(sorted)[c]) THEN <<r>> \o sorted
    ELSE <<Head(sorted)>> \o InsertRow(Tail(sorted), r, c)

RECURSIVE SortRows(_, _)
\* ascending; rows with equal keys keep their order (numpy sorts arrays this
\* small by insertion)
SortRows(rows, c) ==
    IF rows = <<>> THEN <<>>
    ELSE InsertRow(SortRows(SubSeq(rows, 1, Len(rows) - 1), c), rows[Len(rows)], c)

\* mutant of sort_values: the rows are left as they were
sort_values_noop(t, c) == t

\* dataset.sort_values(by=sort_col)
sort_values(t, c) == [t EXCEPT !.rows = SortRows(t.rows, c)]

\* ----------------------------------------------------------------- charts
RECURSIVE FirstSeen(_, _, _)
\* the distinct non-missing cells of column c, in order of first appearance
FirstSeen(rows, c, seen) ==
    IF rows = <<>> THEN <<>>
    ELSE IF Head(rows)[c] = NaN \/ Head(rows)[c] \in seen
         THEN FirstSeen(Tail(rows), c, seen)
         ELSE <<Head(rows)[c]>> \o FirstSeen(Tail(rows), c, seen \cup {Head(rows)[c]})

Occurrences(rows, c, v) == Cardinality({i \in DOMAIN rows : rows[i][c] = v})

RECURSIVE InsertCount(_, _)
InsertCount(sorted, e) ==
    IF sorted = <<>> THEN <<e>>
    ELSE IF e.value > Head(sorted).value THEN <<e>> \o sorted
    ELSE <<Head(sorted)>> \o InsertCount(Tail(sorted), e)

RECURSIVE ByCountDesc(_)
ByCountDesc(s) ==
    IF s = <<>> THEN <<>>
    ELSE InsertCount(ByCountDesc(SubSeq(s, 1, Len(s) - 1)), s[Len(s)])

\* dataset[col].value_counts(): most frequent first, missing cells not counted
value_counts(t, c) ==
    LET seen == FirstSeen(t.rows, c, {})
    IN  ByCountDesc([i \in DOMAIN seen |->
                        [label |-> seen[i], value |-> Occurrences(t.rows, c, seen[i])]])

head(s, n) == SubSeq(s, 1, IF Len(s) < n THEN Len(s) ELSE n)

\* bar_data = dataset[selected_bar_col].value_counts().head(10).reset_index();
\* the labels are then shown as stripped text, the counts are what is plotted
bar_data(t, c) == head(value_counts(t, c), TopN)

\* pie_data = dataset.groupby(selected_cat_col)[selected_num_col].sum()
pie_data(t, cat, num) ==
    LET keys == GroupKeys(t, cat)
    IN  [k \in DOMAIN keys |->
            [label |-> keys[k], value |-> SumCol(t.rows, cat, keys[k], num)]]

\* ----------------------------------------------------------------- export
\* mutant of to_csv: index=False forgotten, the row number leads every line
to_csv_with_index(t) ==
    [header |-> <<"">> \o t.columns,
     lines  |-> [i \in DOMAIN t.rows |->
                    <<i - 1>> \o [j \in DOMAIN t.columns |-> t.rows[i][t.columns[j]]]]]

\* one line of cells per row, in column order, under a header line
to_csv(t) ==
    [header |-> t.columns,
     lines  |-> [i \in DOMAIN t.rows |->
                    [j \in DOMAIN t.columns |-> t.rows[i][t.columns[j]]]]]

\* df.to_excel(writer, index=False): the same sheet of cells
convert_df_to_excel(t) ==
    [header |-> t.columns,
     lines  |-> [i \in DOMAIN t.rows |->
                    [j \in DOMAIN t.columns |-> t.rows[i][t.columns[j]]]]]

NoExport == [header |-> <<>>, lines |-> <<>>]

\* ----------------------------------------------------------------- inputs
\* Files the user may pick in the uploader.  "n/a" (TextBase) is a string that
\* is no date; Region holds two names or nothing; Sales holds small numbers.
CellsOf(c) ==
    CASE c = "Region"       -> {TextBase + 1, TextBase + 2, NaN}
      [] c = "Sales"        -> {1, 2}
      [] c = "Qty"          -> {1}
      [] c = "Invoice Date" -> {DateBase, DateBase + 1, DateBase + TicksPerDay, TextBase}

AllCells == UNION {CellsOf(c) : c \in {"Region", "Sales", "Qty", "Invoice Date"}}

Schemas == {<<"Region", "Sales">>, <<"Invoice Date", "Qty">>, <<"Region">>, <<"Sales">>}

RowsOf(cols) == {r \in [Range(cols) -> AllCells] : \A c \in Range(cols) : r[c] \in CellsOf(c)}

Generated ==
    UNION {{[columns |-> cols, rows |-> rs] :
               rs \in UNION {[1..n -> RowsOf(cols)] : n \in 0..MaxRows}} : cols \in Schemas}

\* MaxCats distinct regions, the last one twice
Wide ==
    [columns |-> <<"Region", "Sales">>,
     rows    |-> [i \in 1..(MaxCats + 1) |->
                    [c \in {"Region", "Sales"} |->
                        IF c = "Sales" THEN 1
                        ELSE IF i > MaxCats THEN TextBase + MaxCats ELSE TextBase + i]]]

\* Region,Sales / A,10 / B,20 / A,5 (the example of the specification)
Example ==
    [columns |-> <<"Region", "Sales">>,
     rows    |-> << [c \in {"Region", "Sales"} |-> IF c = "Region" THEN TextBase + 1 ELSE 10],
                    [c \in {"Region", "Sales"} |-> IF c = "Region" THEN TextBase + 2 ELSE 20],
                    [c \in {"Region", "Sales"} |-> IF c = "Region" THEN TextBase + 1 ELSE 5] >>]

Ledger ==
    [columns |-> <<"Region", "Invoice Date", "Sales">>,
     rows    |-> << [c \in {"Region", "Invoice Date", "Sales"} |->
                        CASE c = "Region" -> TextBase + 2
                          [] c = "Invoice Date" -> DateBase + TicksPerDay
                          [] c = "Sales" -> 2],
                    [c \in {"Region", "Invoice Date", "Sales"} |->
                        CASE c = "Region" -> TextBase + 1
                          [] c = "Invoice Date" -> TextBase
                          [] c = "Sales" -> 1],
                    [c \in {"Region", "Invoice Date", "Sales"} |->
                        CASE c = "Region" -> TextBase + 1
                          [] c = "Invoice Date" -> DateBase
                          [] c = "Sales" -> NaN] >>]

EmptyFile == [columns |-> <<>>, rows |-> <<>>]

NoFile == [name |-> "", body |-> EmptyFile]

Files ==
    {[name |-> "a.csv", body |-> b] : b \in Generated \cup {Wide, Ledger, Example, EmptyFile}}
    \cup {[name |-> "b.xlsx", body |-> b] : b \in {Example, EmptyFile}}

PyNone == "<None>"
NoChart == [kind |-> "none", cols |-> <<>>, data |-> <<>>]

\* the sub-sequences of s (st.multiselect)
Picks(s) ==
    {LET idx == SortedSeq(I) IN [k \in DOMAIN idx |-> s[idx[k]]] : I \in SUBSET DOMAIN s}

\* st.selectbox over a list: one of its options, None when there is none
Options(s) == IF s = <<>> THEN {PyNone} ELSE Range(s)

\* dataset[cols] raises KeyError unless every name is a column
HasColumns(t, cols) == \A i \in DOMAIN cols : cols[i] \in Range(t.columns)

\* ------------------------------------------------------------------ state
VARIABLES
    datasets,               \* st.session_state.datasets: file name -> table
    pc,                     \* the position of the running pass; "done" when it has ended
    uploaded_file,          \* the uploader's value in this pass
    sidebar,                \* st.sidebar.success / st.sidebar.error of the upload handler
    selected_dataset_name,
    dataset,                \* the working table
    numeric_cols, categorical_cols, columns,
    date_range, group_col, sort_col,
    chart,                  \* what the chart branch drew
    warning,                \* st.warning shown in this pass
    raised,                 \* the pass ended in an uncaught exception
    excel_data, csv_data,   \* the data of the two download buttons
    source,                 \* the table found at the lookup of line 37
    filtered,               \* the working table after the date filter
    grouped                 \* the working table after grouping

vars == <<datasets, pc, uploaded_file, sidebar, selected_dataset_name, dataset,
          numeric_cols, categorical_cols, columns, date_range, group_col, sort_col,
          chart, warning, raised, excel_data, csv_data, source, filtered, grouped>>

\* the values a pass starts from
Fresh ==
    /\ selected_dataset_name = PyNone
    /\ dataset = NoTable
    /\ numeric_cols = <<>> /\ categorical_cols = <<>> /\ columns = <<>>
    /\ date_range = <<>> /\ group_col = PyNone /\ sort_col = PyNone
    /\ chart = NoChart /\ warning = "none" /\ raised = FALSE
    /\ excel_data = NoExport /\ csv_data = NoExport
    /\ source = NoTable /\ filtered = NoTable /\ grouped = NoTable

StartPass ==
    /\ selected_dataset_name' = PyNone
    /\ dataset' = NoTable
    /\ numeric_cols' = <<>> /\ categorical_cols' = <<>> /\ columns' = <<>>
    /\ date_range' = <<>> /\ group_col' = PyNone /\ sort_col' = PyNone
    /\ chart' = NoChart /\ warning' = "none" /\ raised' = FALSE
    /\ excel_data' = NoExport /\ csv_data' = NoExport
    /\ source' = NoTable /\ filtered' = NoTable /\ grouped' = NoTable

Init ==
    /\ datasets = <<>>
    /\ pc = "start"
    /\ uploaded_file = NoFile
    /\ sidebar = "none"
    /\ Fresh

\* mutant of Put: the session keeps one dataset only
PutAlone(store, name, df) == [n \in {name} |-> df]

Put(store, name, df) ==
    [n \in DOMAIN store \cup {name} |-> IF n = name THEN df ELSE store[n]]

\* lines 8-15: an interaction makes Streamlit run the script again from the top;
\* only st.session_state outlives the pass before
Rerun ==
    /\ pc = "done"
    /\ pc' = "start"
    /\ uploaded_file' = NoFile
    /\ sidebar' = "none"
    /\ StartPass
    /\ UNCHANGED datasets

\* mutant of Stored: the entry is dropped before the decoder runs
StoredDroppingFirst(store, file) ==
    IF Decodes(file.body)
    THEN Put(store, file.name, read_csv(file.body))
    ELSE [n \in DOMAIN store \ {file.name} |-> store[n]]

\* lines 23-31: the store the try block leaves behind.  The entry is assigned
\* after the decoder returned, so a decoder that raises assigns nothing.
Stored(store, file) ==
    IF Decodes(file.body)
    THEN Put(store, file.name, IF endswith_csv(file.name) THEN read_csv(file.body)
                                                          ELSE read_excel(file.body))
    ELSE store

\* lines 19-31: the upload handler
Upload(file) ==
    /\ pc = "start"
    /\ pc' = "loaded"
    /\ uploaded_file' = file
    /\ IF file = NoFile
       THEN /\ sidebar' = "none"
            /\ datasets' = datasets
       ELSE /\ datasets' = Stored(datasets, file)
            /\ sidebar' = IF Decodes(file.body) THEN "success" ELSE "error"
    /\ UNCHANGED <<selected_dataset_name, dataset, numeric_cols, categorical_cols,
                   columns, date_range, group_col, sort_col, chart, warning, raised,
                   excel_data, csv_data, source, filtered, grouped>>

\* lines 175-176
NoDataset ==
    /\ pc = "loaded"
    /\ datasets = <<>>
    /\ warning' = "Please upload a dataset to begin."
    /\ pc' = "done"
    /\ UNCHANGED <<datasets, uploaded_file, sidebar, selected_dataset_name, dataset,
                   numeric_cols, categorical_cols, columns, date_range, group_col,
                   sort_col, chart, raised, excel_data, csv_data, source, filtered,
                   grouped>>

\* lines 34-47: the dataset selector and the column type lists
SelectDataset(name) ==
    /\ pc = "loaded"
    /\ datasets # <<>>
    /\ name \in DOMAIN datasets
    /\ selected_dataset_name' = name
    /\ dataset' = datasets[name]
    /\ source' = datasets[name]
    /\ numeric_cols' = select_dtypes(datasets[name], "number")
    /\ categorical_cols' = select_dtypes(datasets[name], "object")
    /\ columns' = datasets[name].columns
    /\ pc' = "datefilter"
    /\ UNCHANGED <<datasets, uploaded_file, sidebar, date_range, group_col, sort_col,
                   chart, warning, raised, excel_data, csv_data, filtered, grouped>>

\* line 53 false: the table has no 'Invoice Date'
NoDateFilter ==
    /\ pc = "datefilter"
    /\ "Invoice Date" \notin Range(dataset.columns)
    /\ filtered' = dataset
    /\ pc' = "group"
    /\ UNCHANGED <<datasets, uploaded_file, sidebar, selected_dataset_name, dataset,
                   numeric_cols, categorical_cols, columns, date_range, group_col,
                   sort_col, chart, warning, raised, excel_data, csv_data, source,
                   grouped>>

\* lines 53-67.  The working table is still the stored object when line 54
\* assigns the coerced column, so the assignment lands in the store.
DateFilter(lo, hi) ==
    /\ pc = "datefilter"
    /\ "Invoice Date" \in Range(dataset.columns)
    /\ LET coerced == CoerceInvoiceDate(dataset)
           kept    == dropna(coerced, "Invoice Date")
           days    == {dt_date(ts) : ts \in ColumnValues(kept, "Invoice Date")}
       IN  /\ kept.rows # <<>>
           /\ SetMin(days) <= lo /\ lo <= hi /\ hi <= SetMax(days)
           /\ datasets' = [datasets EXCEPT ![selected_dataset_name] = coerced]
           /\ date_range' = <<lo, hi>>
           /\ dataset' = InRange(kept, <<lo, hi>>)
           /\ filtered' = InRange(kept, <<lo, hi>>)
    /\ pc' = "group"
    /\ UNCHANGED <<uploaded_file, sidebar, selected_dataset_name, numeric_cols,
                   categorical_cols, columns, group_col, sort_col, chart, warning,
                   raised, excel_data, csv_data, source, grouped>>

\* lines 53-58 when no row has a date: min() and max() are NaT, which is no
\* bound a slider can take, and the pass ends in the exception
DateFilterRaises ==
    /\ pc = "datefilter"
    /\ "Invoice Date" \in Range(dataset.columns)
    /\ LET coerced == CoerceInvoiceDate(dataset)
           kept    == dropna(coerced, "Invoice Date")
       IN  /\ kept.rows = <<>>
           /\ datasets' = [datasets EXCEPT ![selected_dataset_name] = coerced]
           /\ dataset' = kept
    /\ raised' = TRUE
    /\ pc' = "done"
    /\ UNCHANGED <<uploaded_file, sidebar, selected_dataset_name, numeric_cols,
                   categorical_cols, columns, date_range, group_col, sort_col, chart,
                   warning, excel_data, csv_data, source, filtered, grouped>>

\* lines 70-72
Group(g) ==
    /\ pc = "group"
    /\ g \in {"None"} \cup Range(columns)
    /\ group_col' = g
    /\ dataset' = IF g # "None" THEN groupby_sum(dataset, g) ELSE dataset
    /\ grouped' = dataset'
    /\ pc' = "sort"
    /\ UNCHANGED <<datasets, uploaded_file, sidebar, selected_dataset_name,
                   numeric_cols, categorical_cols, columns, date_range, sort_col,
                   chart, warning, raised, excel_data, csv_data, source, filtered>>

\* lines 75-77
Sort(s) ==
    /\ pc = "sort"
    /\ s \in {"None"} \cup Range(dataset.columns)
    /\ sort_col' = s
    /\ dataset' = IF s # "None" THEN sort_values(dataset, s) ELSE dataset
    /\ pc' = "chart"
    /\ UNCHANGED <<datasets, uploaded_file, sidebar, selected_dataset_name,
                   numeric_cols, categorical_cols, columns, date_range, group_col,
                   chart, warning, raised, excel_data, csv_data, source, filtered,
                   grouped>>

\* lines 81-145: what every chart branch leaves behind.  A branch that raises
\* ends the pass; the others go on to the downloads.
Rendered(c, w, r) ==
    /\ chart' = c
    /\ warning' = w
    /\ raised' = r
    /\ pc' = IF r THEN "done" ELSE "download"
    /\ UNCHANGED <<datasets, uploaded_file, sidebar, selected_dataset_name, dataset,
                   numeric_cols, categorical_cols, columns, date_range, group_col,
                   sort_col, excel_data, csv_data, source, filtered, grouped>>

Drawing(kind, cols, data) == [kind |-> kind, cols |-> cols, data |-> data]

\* lines 90-95
LinePlot(selected_line_cols) ==
    /\ pc = "chart"
    /\ selected_line_cols \in Picks(numeric_cols)
    /\ IF selected_line_cols = <<>>
       THEN Rendered(NoChart, "Select at least one numeric column.", FALSE)
       ELSE IF HasColumns(dataset, selected_line_cols)
       THEN Rendered(Drawing("Line Plot", selected_line_cols, <<>>), "none", FALSE)
       ELSE Rendered(NoChart, "none", TRUE)

\* lines 98-108
BarChart(selected_bar_col) ==
    /\ pc = "chart"
    /\ selected_bar_col \in Options(columns)
    /\ IF selected_bar_col = PyNone
       THEN Rendered(NoChart, "none", FALSE)
       ELSE IF HasColumns(dataset, <<selected_bar_col>>)
       THEN Rendered(Drawing("Bar Chart", <<selected_bar_col>>,
                             bar_data(dataset, selected_bar_col)), "none", FALSE)
       ELSE Rendered(NoChart, "none", TRUE)

\* lines 111-114: dataset[col] raises KeyError when col is None or not a column
Histogram(col) ==
    /\ pc = "chart"
    /\ col \in Options(numeric_cols)
    /\ IF col # PyNone /\ HasColumns(dataset, <<col>>)
       THEN Rendered(Drawing("Histogram", <<col>>, <<>>), "none", FALSE)
       ELSE Rendered(NoChart, "none", TRUE)

\* lines 117-120
BoxPlot(col) ==
    /\ pc = "chart"
    /\ col \in Options(numeric_cols)
    /\ IF col # PyNone /\ HasColumns(dataset, <<col>>)
       THEN Rendered(Drawing("Box Plot", <<col>>, <<>>), "none", FALSE)
       ELSE Rendered(NoChart, "none", TRUE)

\* lines 123-126: a correlation matrix without columns has no minimum and
\* sns.heatmap raises ValueError on it
Heatmap ==
    /\ pc = "chart"
    /\ IF numeric_cols # <<>> /\ HasColumns(dataset, numeric_cols)
       THEN Rendered(Drawing("Heatmap", numeric_cols, <<>>), "none", FALSE)
       ELSE Rendered(NoChart, "none", TRUE)

\* lines 129-145
PieChart(selected_cat_col, selected_num_col) ==
    /\ pc = "chart"
    /\ IF categorical_cols # <<>> /\ numeric_cols # <<>>
       THEN /\ selected_cat_col \in Range(categorical_cols)
            /\ selected_num_col \in Range(numeric_cols)
            /\ IF HasColumns(dataset, <<selected_cat_col, selected_num_col>>)
               THEN Rendered(Drawing("Pie Chart", <<selected_cat_col, selected_num_col>>,
                                     pie_data(dataset, selected_cat_col, selected_num_col)),
                             "none", FALSE)
               ELSE Rendered(NoChart, "none", FALSE)
       ELSE /\ selected_cat_col = PyNone
            /\ selected_num_col = PyNone
            /\ Rendered(NoChart, "Need both categorical and numeric columns.", FALSE)

\* lines 147-173
Download ==
    /\ pc = "download"
    /\ excel_data' = convert_df_to_excel(dataset)
    /\ csv_data' = to_csv(dataset)
    /\ pc' = "done"
    /\ UNCHANGED <<datasets, uploaded_file, sidebar, selected_dataset_name, dataset,
                   numeric_cols, categorical_cols, columns, date_range, group_col,
                   sort_col, chart, warning, raised, source, filtered, grouped>>

\* the days the uploaded dates fall on, and the column names in use
Days == {dt_date(v - DateBase) : v \in {c \in CellsOf("Invoice Date") : c >= DateBase}}
ColumnNames == {"Region", "Sales", "Qty", "Invoice Date"}

Next ==
    \/ Rerun
    \/ \E file \in Files \cup {NoFile} : Upload(file)
    \/ NoDataset
    \/ \E name \in DOMAIN datasets : SelectDataset(name)
    \/ NoDateFilter
    \/ \E lo \in Days, hi \in Days : DateFilter(lo, hi)
    \/ DateFilterRaises
    \/ \E g \in ColumnNames \cup {"None"} : Group(g)
    \/ \E s \in ColumnNames \cup {"None"} : Sort(s)
    \/ \E cols \in Picks(numeric_cols) : LinePlot(cols)
    \/ \E col \in ColumnNames \cup {PyNone} : BarChart(col)
    \/ \E col \in ColumnNames \cup {PyNone} : Histogram(col)
    \/ \E col \in ColumnNames \cup {PyNone} : BoxPlot(col)
    \/ Heatmap
    \/ \E cat \in ColumnNames \cup {PyNone}, num \in ColumnNames \cup {PyNone} : PieChart(cat, num)
    \/ Download

Spec == Init /\ [][Next]_vars

\* ================================================================= claims
UploadStep == pc = "start" /\ pc' = "loaded"

\* C1: when the uploaded file does not decode, the handler shows an error, the
\* pass goes on to the selector, and the store the selector reads is the store
\* of before the upload: same names, every name selectable, same tables.
C1_FailedUploadLeavesStore ==
    /\ [][(UploadStep /\ uploaded_file' # NoFile /\ ~Decodes(uploaded_file'.body))
            => (sidebar' = "error" /\ datasets' = datasets)]_vars
    /\ [](pc = "loaded" /\ sidebar = "error"
            => /\ ~raised
               /\ \A n \in DOMAIN datasets : ENABLED SelectDataset(n)
               /\ datasets = <<>> => ENABLED NoDataset)

\* a file that does not decode was uploaded under the name of a stored dataset
C1_Witness ==
    /\ pc = "loaded"
    /\ sidebar = "error"
    /\ uploaded_file.name \in DOMAIN datasets
    /\ Cardinality(DOMAIN datasets) = 2

\* C9 (as claimed): no step of a pass after the upload handler modifies the
\* stored tables.
C9_StoreIsImmutable ==
    [][~UploadStep => datasets' = datasets]_vars

\* C10: the names in the store never shrink; a successful upload of n makes
\* the entry of n the table of the file and touches no other entry; once the
\* store is non-empty the 'Please upload a dataset' branch is not taken.
C10_StoreGrows ==
    /\ [][DOMAIN datasets \subseteq DOMAIN datasets']_vars
    /\ [][(UploadStep /\ sidebar' = "success")
            => /\ DOMAIN datasets' = DOMAIN datasets \cup {uploaded_file'.name}
               /\ datasets'[uploaded_file'.name].columns = uploaded_file'.body.columns
               /\ datasets'[uploaded_file'.name].rows = uploaded_file'.body.rows
               /\ \A n \in DOMAIN datasets :
                     n # uploaded_file'.name => datasets'[n] = datasets[n]]_vars
    /\ [][datasets # <<>> => warning' # "Please upload a dataset to begin."]_vars

\* a second name was stored next to the first, and a pass ran on it
C10_Witness ==
    /\ pc = "done"
    /\ sidebar = "success"
    /\ Cardinality(DOMAIN datasets) = 2
    /\ csv_data # NoExport

\* ------------------------------------------------ the stages a pass reached
FilterDone == filtered # NoTable
GroupDone  == group_col # PyNone
SortDone   == sort_col # PyNone
Exported   == csv_data # NoExport

HasInvoiceDate(t) == "Invoice Date" \in Range(t.columns)

\* the timestamp of a row's 'Invoice Date', NaN when it has none
DateOf(t, r) == to_datetime(r["Invoice Date"], t.dtypes["Invoice Date"])

\* the rows of t that have a date
Dated(t) == {i \in DOMAIN t.rows : DateOf(t, t.rows[i]) # NaN}

\* the slider's default value: the first and the last day of the data
FullRange(t) ==
    LET days == {dt_date(DateOf(t, t.rows[i])) : i \in Dated(t)}
    IN  <<SetMin(days), SetMax(days)>>

NoFilterNoGroupNoSort ==
    /\ Exported
    /\ group_col = "None"
    /\ sort_col = "None"
    /\ date_range # <<>> => date_range = FullRange(source)

\* C2 (as claimed): with the full date range, no grouping and no sorting the
\* exported CSV has as many rows as the loaded table, and its columns.
C2_ExportKeepsEveryRow ==
    NoFilterNoGroupNoSort
        => /\ Len(csv_data.lines) = Len(source.rows)
           /\ Range(csv_data.header) = Range(source.columns)

\* C2 (amended): with the full date range, no grouping and no sorting the
\* exported CSV has the columns of the loaded table and one row for every
\* loaded row whose 'Invoice Date' parses as a date; that is every row when the
\* table has no 'Invoice Date' column.
C2_ExportKeepsDatedRows ==
    NoFilterNoGroupNoSort
        => /\ csv_data.header = source.columns
           /\ Len(csv_data.lines) = IF HasInvoiceDate(source)
                                    THEN Cardinality(Dated(source))
                                    ELSE Len(source.rows)

\* a row without a date was lost on the way to the export, another was kept
C2_Witness ==
    /\ NoFilterNoGroupNoSort
    /\ HasInvoiceDate(source)
    /\ Len(csv_data.lines) = 1
    /\ Len(source.rows) = 2

\* C3 (as claimed): the grouped table has one row for every distinct cell of
\* the group column in the filtered table, a missing cell counting as one.
C3_OneRowPerDistinctCell ==
    (GroupDone /\ group_col # "None")
        => Len(grouped.rows) = Cardinality(ColumnValues(filtered, group_col))

\* C3 (amended): the grouped table has one row for every distinct non-missing
\* value of the group column in the filtered table; rows whose group cell is
\* missing are in no group.
C3_OneRowPerDistinctValue ==
    (GroupDone /\ group_col # "None")
        => Len(grouped.rows) = Cardinality(ColumnValues(filtered, group_col) \ {NaN})

\* grouping by a column with a missing cell and a value
C3_Witness ==
    /\ GroupDone
    /\ group_col = "Region"
    /\ NaN \in ColumnValues(filtered, "Region")
    /\ Len(grouped.rows) = 1

RECURSIVE Total(_, _, _)
\* the sum of column c over the rows K of t, missing cells counting nothing
Total(t, K, c) ==
    IF K = {} THEN 0
    ELSE LET k == CHOOSE i \in K : TRUE
         IN  (IF t.rows[k][c] = NaN THEN 0 ELSE t.rows[k][c]) + Total(t, K \ {k}, c)

LineOf(t, r) == [j \in DOMAIN t.columns |-> r[t.columns[j]]]

\* C4: with a group column G every grouped row holds its own value of G and,
\* for every numeric column, the sum over the filtered rows of that value;
\* non-numeric columns other than G are gone; the exported CSV is the header
\* and exactly the grouped rows.
C4_GroupedSums ==
    (GroupDone /\ group_col # "None")
        => /\ \A i, j \in DOMAIN grouped.rows :
                 i # j => grouped.rows[i][group_col] # grouped.rows[j][group_col]
           /\ \A i \in DOMAIN grouped.rows :
                 grouped.rows[i][group_col] \in ColumnValues(filtered, group_col)
           /\ \A c \in Range(filtered.columns) \ {group_col} :
                 IF filtered.dtypes[c] = "number"
                 THEN /\ c \in Range(grouped.columns)
                      /\ \A i \in DOMAIN grouped.rows :
                            grouped.rows[i][c] =
                               Total(filtered,
                                     {k \in DOMAIN filtered.rows :
                                         filtered.rows[k][group_col] = grouped.rows[i][group_col]},
                                     c)
                 ELSE c \notin Range(grouped.columns)
           /\ Exported
                 => /\ csv_data.header = grouped.columns
                    /\ Len(csv_data.lines) = Len(grouped.rows)
                    /\ Range(csv_data.lines) =
                          {LineOf(grouped, grouped.rows[i]) : i \in DOMAIN grouped.rows}

\* the example of the specification: (A,10),(B,20),(A,5) by Region
C4_Witness ==
    /\ source.rows = Example.rows
    /\ group_col = "Region"
    /\ csv_data.header = <<"Region", "Sales">>
    /\ csv_data.lines = << <<TextBase + 1, 15>>, <<TextBase + 2, 20>> >>

\* C5 (as claimed): whatever the chart kind and the selections, the chart
\* stage does not raise: it draws, or it shows a warning and draws nothing,
\* and the downloads follow.
C5_ChartWarnsInsteadOfRaising ==
    (SortDone /\ pc \in {"download", "done"})
        => /\ ~raised
           /\ chart = NoChart => warning # "none"
           /\ pc = "done" => Exported

\* C6 (as claimed): a bar chart and a pie chart show at most ten categories.
C6_AtMostTenCategories ==
    chart.kind \in {"Bar Chart", "Pie Chart"} => Len(chart.data) <= TopN

\* C7: the date filter keeps, in their order, exactly the rows whose day lies
\* in the chosen range, both ends included; with the default range it keeps
\* every row that has a date.
C7_InclusiveDateRange ==
    (FilterDone /\ date_range # <<>>)
        => LET keep == {i \in Dated(source) :
                          /\ date_range[1] <= dt_date(DateOf(source, source.rows[i]))
                          /\ dt_date(DateOf(source, source.rows[i])) <= date_range[2]}
               idx  == SortedSeq(keep)
           IN  /\ filtered.rows =
                     [k \in DOMAIN idx |->
                        [source.rows[idx[k]] EXCEPT !["Invoice Date"] =
                            DateOf(source, source.rows[idx[k]])]]
               /\ date_range = FullRange(source)
                     => Len(filtered.rows) = Cardinality(Dated(source))

\* the range is one day: the row of that day stays, the row of the day before goes
C7_Witness ==
    /\ FilterDone
    /\ date_range = <<1, 1>>
    /\ Len(source.rows) = 2
    /\ Dated(source) = {1, 2}
    /\ Len(filtered.rows) = 1
    /\ dt_date(filtered.rows[1]["Invoice Date"]) = 1

SameRows(a, b) ==
    \A r \in Range(a) \cup Range(b) :
        Cardinality({i \in DOMAIN a : a[i] = r}) = Cardinality({i \in DOMAIN b : b[i] = r})

Ascending(rows, c) ==
    \A i, j \in DOMAIN rows :
        i < j => \/ rows[j][c] = NaN
                 \/ (rows[i][c] # NaN /\ rows[i][c] <= rows[j][c])

\* C8: the stages run as date filter, group, sort, chart, downloads, each on
\* the table the stage before left; the sort orders the grouped rows ascending;
\* chart and downloads leave the working table alone, and both downloads hold
\* that table.
C8_StageOrder ==
    /\ [][/\ pc = "datefilter" => pc' \in {"group", "done"}
          /\ pc = "group" => (pc' = "sort" /\ dataset = filtered)
          /\ pc = "sort" => (pc' = "chart" /\ dataset = grouped)
          /\ pc = "chart" => (pc' \in {"download", "done"} /\ dataset' = dataset)
          /\ pc = "download" => (pc' = "done" /\ dataset' = dataset)]_vars
    /\ [](/\ (GroupDone /\ group_col = "None") => grouped = filtered
          /\ (SortDone /\ sort_col = "None") => dataset = grouped
          /\ (SortDone /\ sort_col # "None")
                => /\ dataset.columns = grouped.columns
                   /\ SameRows(dataset.rows, grouped.rows)
                   /\ Ascending(dataset.rows, sort_col)
          /\ Exported
                => /\ csv_data.header = dataset.columns
                   /\ csv_data.lines =
                         [i \in DOMAIN dataset.rows |-> LineOf(dataset, dataset.rows[i])]
                   /\ excel_data = csv_data)

\* grouped, then sorted into another order, then exported
C8_Witness ==
    /\ Exported
    /\ group_col = "Region"
    /\ sort_col = "Sales"
    /\ dataset.rows # grouped.rows
    /\ Len(dataset.rows) = 2

====
